---- MODULE Spec2Model ----
(***************************************************************************)
(* Model of intraday_analysis.py: the validate -> fetch -> analyze         *)
(* pipeline of FinancialAnalytics.process_market, the per-ticker analysis  *)
(* of _process_single_ticker, the recommendation rule of generate_report   *)
(* and the session-date resolution of MarketDataProcessor._get_market_day. *)
(*                                                                         *)
(* Seven specifications share the module:                                  *)
(*   Spec           the whole batch run, with both thread pools            *)
(*   FairSpec       the batch run under fair scheduling                    *)
(*   SpecAnalyze    one fetch+analyze task over every kind of response     *)
(*   SpecRecommend  the recommendation rule over a grid of score values    *)
(*   SpecSession    the session-date resolution over two weeks of instants *)
(*   SpecReport     generate_report on the outcome of a batch              *)
(*   SpecPool       one thread pool with more tasks than workers           *)
(***************************************************************************)
EXTENDS Integers, Sequences, FiniteSets

\* ------------------------------------------------------------------------
\* Configuration (class Config)
\* ------------------------------------------------------------------------
MIN_DATA_POINTS == 60
WORKERS == 10
TIMEOUT == 10

\* ------------------------------------------------------------------------
\* Bounds of the model
\* ------------------------------------------------------------------------
\* at most this many input tickers in one batch
MaxTickers == 3
\* a series clearly shorter than MIN_DATA_POINTS
ShortBars == 10
\* a series clearly longer than MIN_DATA_POINTS
LongBars == 100
\* scores are sqrt(n / d) with n up to ScoreNum and d up to ScoreDen
ScoreNum == 9
ScoreDen == 4
\* the reference instants lie on days 7..LastDay; day 0 is a Monday
LastDay == 20
\* at most this many tasks are submitted to one pool in SpecPool
PoolTasks == 12
\* the ticker taken as the slow one in FairSpec
SlowTicker == 1
\* at most this many input tickers in one batch of FairSpec
FairTickers == 2

VARIABLES
    pc,             \* position of the main thread in process_market
    all_tickers,    \* the input ticker list
    v_queue,        \* validation pool: submitted probe tasks not yet taken
    v_running,      \* validation pool: probe tasks being executed
    v_future,       \* validation pool: ticker -> <<>> (pending) or <<bool>>
    v_yielded,      \* futures as_completed has handed to the main thread
    probe,          \* what the provider answered to each probe
    valid,          \* the list get_valid_tickers builds
    valid_tickers,  \* what get_valid_tickers returned
    p_queue,        \* processing pool: submitted tasks not yet taken
    p_running,      \* processing pool: tasks being executed
    p_future,       \* processing pool: ticker -> <<>> or <<outcome>>
    p_yielded,      \* futures as_completed has handed to the main thread
    response,       \* what the provider answered to each bar request
    fetch_count,    \* bar requests issued per ticker
    results,        \* process_market's results list
    skipped,        \* process_market's skipped list
    invalid_count,  \* third component of the returned tuple
    a_response,     \* SpecAnalyze: the provider's answer to the one task
    a_future,       \* SpecAnalyze: the value of the task's future
    c_score,        \* SpecRecommend: the Z-Score of a result row
    c_risk_adj,     \* SpecRecommend: the Risk-Adj Return of the row
    c_rec,          \* SpecRecommend: the row's Recommendation
    now,            \* SpecSession: datetime.now(self.ist)
    s_pc,           \* SpecSession: position in _get_market_day
    delta,          \* SpecSession: the local delta of _get_market_day
    market_day,     \* SpecSession: the date _get_market_day returned
    start_time,     \* SpecSession: self.start_time, in minutes since day 0
    end_time,       \* SpecSession: self.end_time, in minutes since day 0
    r_input,        \* SpecReport: number of input tickers of the batch
    r_results,      \* SpecReport: generate_report's argument results
    r_skipped,      \* SpecReport: generate_report's argument skipped
    r_invalid_count,\* SpecReport: generate_report's argument invalid_count
    r_pc,           \* SpecReport: position in generate_report
    r_printed,      \* SpecReport: the message of the early return, or ""
    r_stats,        \* SpecReport: <<>> or <<the five printed counts>>
    r_top,          \* SpecReport: the rows of the printed table
    w_tasks,        \* SpecPool: number of tasks submitted to the pool
    w_queue,        \* SpecPool: submitted tasks not yet taken by a worker
    w_running,      \* SpecPool: tasks being executed
    w_done          \* SpecPool: tasks that have ended

pipeVars == <<pc, all_tickers, v_queue, v_running, v_future, v_yielded, probe,
              valid, valid_tickers, p_queue, p_running, p_future, p_yielded,
              response, fetch_count, results, skipped, invalid_count>>

anaVars == <<a_response, a_future>>

recVars == <<c_score, c_risk_adj, c_rec>>

sessVars == <<now, s_pc, delta, market_day, start_time, end_time>>

repVars == <<r_input, r_results, r_skipped, r_invalid_count, r_pc, r_printed,
             r_stats, r_top>>

poolVars == <<w_tasks, w_queue, w_running, w_done>>

vars == <<pipeVars, anaVars, recVars, sessVars, repVars, poolVars>>

\* ------------------------------------------------------------------------
\* Helpers
\* ------------------------------------------------------------------------
Ticker == 1..MaxTickers

Range(s) == {s[i] : i \in 1..Len(s)}

\* ------------------------------------------------------------------------
\* MarketDataValidator
\* ------------------------------------------------------------------------
\* What yf.Ticker(t).history(period="1d") can do: return bars ("data"),
\* return an empty frame ("empty"), or raise ("error": a network error, a
\* malformed answer, or the timeout of Config.TIMEOUT seconds running out).
ProbeOutcomes == {"data", "empty", "error"}

\* variant of _is_valid_ticker: the except clause returns True
_is_valid_ticker_true(o) ==
    IF o = "error" THEN TRUE ELSE o /= "empty"

\* _is_valid_ticker: not data.empty, and False on any exception
_is_valid_ticker(o) ==
    IF o = "error" THEN FALSE ELSE o /= "empty"

\* ------------------------------------------------------------------------
\* Numbers.  The statistics are square roots of rationals, so a float is
\* modelled exactly as sgn * sqrt(n / d) with sgn in {-1, 0, 1}; d = 0
\* stands for NaN.  Comparisons follow IEEE: any comparison with NaN is
\* false.
\* ------------------------------------------------------------------------
RECURSIVE GCD(_, _)
GCD(a, b) == IF b = 0 THEN a ELSE GCD(b, a % b)

LCM(a, b) == (a * b) \div GCD(a, b)

Sign(x) == IF x > 0 THEN 1 ELSE IF x < 0 THEN -1 ELSE 0

NaN == [sgn |-> 0, n |-> 0, d |-> 0]

IsNaN(x) == x.d = 0

\* sgn * sqrt(n / d) in lowest terms
Root(sgn, n, d) ==
    IF d = 0 THEN NaN
    ELSE IF n = 0 \/ sgn = 0 THEN [sgn |-> 0, n |-> 0, d |-> 1]
    ELSE LET g == GCD(n, d) IN [sgn |-> sgn, n |-> n \div g, d |-> d \div g]

\* the rational a / b (b > 0) as a float
Ratio(a, b) == Root(Sign(a), a * a, b * b)

FromInt(k) == Ratio(k, 1)

\* x < y for two floats that are not NaN
Less(x, y) ==
    IF x.sgn /= y.sgn THEN x.sgn < y.sgn
    ELSE IF x.sgn = 0 THEN FALSE
    ELSE IF x.sgn = 1 THEN x.n * y.d < y.n * x.d
    ELSE x.n * y.d > y.n * x.d

\* Python's x > y, x < y, x != y on floats
Gt(x, y) == ~IsNaN(x) /\ ~IsNaN(y) /\ Less(y, x)
Lt(x, y) == ~IsNaN(x) /\ ~IsNaN(y) /\ Less(x, y)
Ne(x, y) == IsNaN(x) \/ IsNaN(y) \/ Less(x, y) \/ Less(y, x)

\* x / y for y /= 0
Div(x, y) ==
    IF IsNaN(x) \/ IsNaN(y) THEN NaN
    ELSE Root(x.sgn * y.sgn, x.n * y.d, x.d * y.n)

\* ------------------------------------------------------------------------
\* MarketDataProcessor.fetch_intraday_data
\* ------------------------------------------------------------------------
\* Close prices of a frame of n bars.  Prices are 1 or 2, so every
\* per-bar return is 0, +1 or -1/2.
Shapes == {"flat", "up", "down", "spike", "zigzag"}

Price(shape, i, n) ==
    CASE shape = "flat"   -> 1
      [] shape = "up"     -> IF i = n THEN 2 ELSE 1
      [] shape = "down"   -> IF i = n THEN 1 ELSE 2
      [] shape = "spike"  -> IF i = 2 THEN 2 ELSE 1
      [] shape = "zigzag" -> IF i % 2 = 0 THEN 2 ELSE 1

\* What happens to the bar request of a task:
\*   frame    history() returns a DataFrame of `rows` bars with a Close column
\*   noclose  history() returns a DataFrame of `rows` bars without one
\*   error    history() raises (a network error, a malformed answer, or
\*            the timeout of Config.TIMEOUT seconds running out)
\*   crash    history() returns a frame, and the task then raises outside
\*            its two try blocks (out of memory, say)
Frame(rows, shape) == [kind |-> "frame", rows |-> rows, shape |-> shape]
NoClose(rows) == [kind |-> "noclose", rows |-> rows, shape |-> "flat"]
Failure(kind) == [kind |-> kind, rows |-> 0, shape |-> "flat"]
Crash(rows) == [kind |-> "crash", rows |-> rows, shape |-> "flat"]

\* pd.DataFrame()
EmptyFrame == NoClose(0)

\* variant of fetch_intraday_data: the except clause raises again
fetch_intraday_data_reraise(r) ==
    [raised |-> r.kind = "error",
     data   |-> IF r.kind = "error" THEN EmptyFrame ELSE r]

\* fetch_intraday_data: the frame, or an empty frame on any exception;
\* raised says whether an exception leaves the method
fetch_intraday_data(r) ==
    [raised |-> FALSE,
     data   |-> IF r.kind = "error" THEN EmptyFrame ELSE r]

\* data['Close']
Close(data) == [i \in 1..data.rows |-> Price(data.shape, i, data.rows)]

\* ------------------------------------------------------------------------
\* FinancialAnalytics._process_single_ticker
\* ------------------------------------------------------------------------
\* least common multiple and sum of f[lo..hi], by halving the range
RECURSIVE LCMOver(_, _, _)
LCMOver(f, lo, hi) ==
    IF lo > hi THEN 1
    ELSE IF lo = hi THEN f[lo]
    ELSE LET mid == (lo + hi) \div 2
         IN  LCM(LCMOver(f, lo, mid), LCMOver(f, mid + 1, hi))

RECURSIVE SumOver(_, _, _)
SumOver(f, lo, hi) ==
    IF lo > hi THEN 0
    ELSE IF lo = hi THEN f[lo]
    ELSE LET mid == (lo + hi) \div 2
         IN  SumOver(f, lo, mid) + SumOver(f, mid + 1, hi)

\* variant of InsufficientData: <= for <
InsufficientData_le(data) == data.rows <= MIN_DATA_POINTS

\* len(data) < Config.MIN_DATA_POINTS
InsufficientData(data) == data.rows < MIN_DATA_POINTS

\* variant of RiskAdjReturn: the division without the test on volatility
RiskAdjReturn_noguard(daily_return_pct, volatility) ==
    Div(daily_return_pct, volatility)

\* line 139: daily_return_pct / volatility if volatility != 0 else 0
RiskAdjReturn(daily_return_pct, volatility) ==
    IF Ne(volatility, FromInt(0))
    THEN Div(daily_return_pct, volatility)
    ELSE FromInt(0)

\* The statistics of lines 134-144 for a Close series c of at least two
\* positive prices.  K is a common denominator of the returns, R the
\* returns times K, so that mean = S / (K m) and the sum of squared
\* deviations is W / (K^2 m).
Statistics(c) ==
    LET n   == Len(c)
        m   == n - 1
        K   == LCMOver(c, 1, m)
        R   == [i \in 1..m |-> ((c[i + 1] - c[i]) * K) \div c[i]]
        S   == SumOver(R, 1, m)
        Q   == SumOver([i \in 1..m |-> R[i] * R[i]], 1, m)
        W   == m * Q - S * S
        volatility       == IF m < 2 THEN NaN ELSE Root(1, W, K * K * m * (m - 1))
        current_price    == c[n]
        open_price       == c[1]
        Dn               == (current_price - open_price) * 100
        daily_return_pct == Ratio(Dn, open_price)
        risk_adj_return  == RiskAdjReturn(daily_return_pct, volatility)
        market_std       == Root(1, W, K * K * m * m)
        Zn               == Dn * K * m - S * open_price
        z_score          == IF Ne(market_std, FromInt(0))
                            THEN Root(Sign(Zn), Zn * Zn, open_price * open_price * W)
                            ELSE FromInt(0)
    IN  [Ticker          |-> 0,
         Current_Price   |-> current_price,
         Daily_Return    |-> daily_return_pct,
         Volatility      |-> volatility,
         Risk_Adj_Return |-> risk_adj_return,
         Z_Score         |-> z_score]

\* The frames with a Close column and at least one bar, and their
\* statistics, tabulated once
Frames == {Frame(rows, shape) : rows \in 1..LongBars, shape \in Shapes}

StatisticsOf == [d \in Frames |-> Statistics(Close(d))]

\* The value of the task's future: an exception, None (<<>>) or a record.
_process_single_ticker(ticker, r) ==
    LET f == fetch_intraday_data(r) IN
    IF f.raised \/ r.kind = "crash" THEN [exc |-> TRUE, result |-> <<>>]
    ELSE IF InsufficientData(f.data) THEN [exc |-> FALSE, result |-> <<>>]
    ELSE IF f.data.kind = "noclose" THEN [exc |-> FALSE, result |-> <<>>]
    ELSE [exc    |-> FALSE,
          result |-> <<[StatisticsOf[f.data] EXCEPT !.Ticker = ticker]>>]

\* ------------------------------------------------------------------------
\* The batch run: FinancialAnalytics.process_market
\* ------------------------------------------------------------------------
\* The responses the provider gives to bar requests during a batch run.
Responses ==
    {Failure("error"), Crash(LongBars), NoClose(MIN_DATA_POINTS),
     Frame(ShortBars, "up"), Frame(MIN_DATA_POINTS, "down"),
     Frame(LongBars, "flat")}

Pending == <<>>

\* variant of WorkerFree: a pool of one worker
WorkerFree_single(running) == Cardinality(running) < 1

\* variant of WorkerFree: a queued task is always taken
WorkerFree_unbounded(running) == TRUE

\* ThreadPoolExecutor(max_workers=Config.WORKERS): a queued task is taken
\* only while fewer than WORKERS tasks are being executed
WorkerFree(running) == Cardinality(running) < WORKERS

\* variant of CollectValid: the append is not under the if
CollectValid_always(v, ticker, ok) == Append(v, ticker)

\* get_valid_tickers, lines 31-36: the body of the as_completed loop
CollectValid(v, ticker, ok) == IF ok THEN Append(v, ticker) ELSE v

\* variant of CollectResults: the list is assigned, not appended to
CollectResults_overwrite(res, ticker, out) ==
    IF ~out.exc /\ out.result /= <<>> THEN <<out.result[1]>> ELSE res

\* process_market, lines 114-123: the body of the as_completed loop
CollectResults(res, ticker, out) ==
    IF ~out.exc /\ out.result /= <<>> THEN Append(res, out.result[1]) ELSE res

\* variant of CollectSkipped: the except clause appends nothing
CollectSkipped_lost(sk, ticker, out) ==
    IF out.exc THEN sk
    ELSE IF out.result /= <<>> THEN sk
    ELSE Append(sk, ticker)

CollectSkipped(sk, ticker, out) ==
    IF out.exc THEN Append(sk, ticker)
    ELSE IF out.result /= <<>> THEN sk
    ELSE Append(sk, ticker)

\* variant of AfterCollect: no except clause around future.result()
AfterCollect_raise(out) == IF out.exc THEN "raised" ELSE "processing"

\* lines 115-123: where the main thread stands after it has examined a
\* future; "raised" would be an exception leaving process_market
AfterCollect(out) == "processing"

\* variant of InvalidCount: results is subtracted
InvalidCount_results(all, val) == Len(all) - Len(results)

\* len(all_tickers) - len(valid_tickers)
InvalidCount(all, val) == Len(all) - Len(val)

\* the variables of the other specifications, at rest
AnalyzeIdle == a_response = Failure("none") /\ a_future = <<>>

RecommendIdle == c_score = NaN /\ c_risk_adj = NaN /\ c_rec = "none"

SessionIdle ==
    /\ now = [day |-> 0, hour |-> 0, minute |-> 0]
    /\ s_pc = "idle"
    /\ delta = 0
    /\ market_day = 0
    /\ start_time = 0
    /\ end_time = 0

ReportIdle ==
    /\ r_input = 0
    /\ r_results = <<>>
    /\ r_skipped = <<>>
    /\ r_invalid_count = 0
    /\ r_pc = "idle"
    /\ r_printed = ""
    /\ r_stats = <<>>
    /\ r_top = <<>>

PoolIdle ==
    /\ w_tasks = 0
    /\ w_queue = <<>>
    /\ w_running = {}
    /\ w_done = {}

\* the state in which process_market is entered with the given tickers
Entered(tickers) ==
    /\ pc = "start"
    /\ all_tickers = tickers
    /\ v_queue = <<>>
    /\ v_running = {}
    /\ v_future = [t \in Ticker |-> Pending]
    /\ v_yielded = {}
    /\ probe = [t \in Ticker |-> "none"]
    /\ valid = <<>>
    /\ valid_tickers = <<>>
    /\ p_queue = <<>>
    /\ p_running = {}
    /\ p_future = [t \in Ticker |-> Pending]
    /\ p_yielded = {}
    /\ response = [t \in Ticker |-> Failure("none")]
    /\ fetch_count = [t \in Ticker |-> 0]
    /\ results = <<>>
    /\ skipped = <<>>
    /\ invalid_count = 0

PipelineIdle == Entered(<<>>)

Init ==
    /\ \E k \in 0..MaxTickers : Entered([i \in 1..k |-> i])
    /\ AnalyzeIdle /\ RecommendIdle /\ SessionIdle /\ ReportIdle /\ PoolIdle

\* line 29: one probe task per input ticker is submitted
SubmitProbes ==
    /\ pc = "start"
    /\ pc' = "validating"
    /\ v_queue' = all_tickers
    /\ UNCHANGED <<all_tickers, v_running, v_future, v_yielded, probe, valid,
                   valid_tickers, p_queue, p_running, p_future, p_yielded,
                   response, fetch_count, results, skipped, invalid_count>>
    /\ UNCHANGED <<anaVars, recVars, sessVars, repVars, poolVars>>

\* a free worker of the validation pool takes the oldest queued task
StartProbe ==
    /\ v_queue /= <<>>
    /\ WorkerFree(v_running)
    /\ v_running' = v_running \cup {Head(v_queue)}
    /\ v_queue' = Tail(v_queue)
    /\ UNCHANGED <<pc, all_tickers, v_future, v_yielded, probe, valid,
                   valid_tickers, p_queue, p_running, p_future, p_yielded,
                   response, fetch_count, results, skipped, invalid_count>>
    /\ UNCHANGED <<anaVars, recVars, sessVars, repVars, poolVars>>

\* lines 41-46: the probe of ticker t answers and the task ends
FinishProbe(t) ==
    /\ t \in v_running
    /\ \E o \in ProbeOutcomes :
        /\ probe' = [probe EXCEPT ![t] = o]
        /\ v_future' = [v_future EXCEPT ![t] = <<_is_valid_ticker(o)>>]
    /\ v_running' = v_running \ {t}
    /\ UNCHANGED <<pc, all_tickers, v_queue, v_yielded, valid,
                   valid_tickers, p_queue, p_running, p_future, p_yielded,
                   response, fetch_count, results, skipped, invalid_count>>
    /\ UNCHANGED <<anaVars, recVars, sessVars, repVars, poolVars>>

\* lines 30-37: as_completed yields the finished future of ticker t
CollectProbe(t) ==
    /\ pc = "validating"
    /\ t \in Range(all_tickers) \ v_yielded
    /\ v_future[t] /= Pending
    /\ v_yielded' = v_yielded \cup {t}
    /\ valid' = CollectValid(valid, t, v_future[t][1])
    /\ UNCHANGED <<pc, all_tickers, v_queue, v_running, v_future, probe,
                   valid_tickers, p_queue, p_running, p_future, p_yielded,
                   response, fetch_count, results, skipped, invalid_count>>
    /\ UNCHANGED <<anaVars, recVars, sessVars, repVars, poolVars>>

\* variant of ProbesCollected: the loop is left at any time
ProbesCollected_early(yielded, tickers) == TRUE

\* lines 30-38: the as_completed loop of get_valid_tickers ends, and the
\* with block is left, when every submitted future has been yielded
ProbesCollected(yielded, tickers) == yielded = Range(tickers)

\* lines 38, 105-112: get_valid_tickers returns and one fetch+analyze task
\* per valid ticker is submitted
SubmitTasks ==
    /\ pc = "validating"
    /\ ProbesCollected(v_yielded, all_tickers)
    /\ pc' = "processing"
    /\ valid_tickers' = valid
    /\ results' = <<>>
    /\ skipped' = <<>>
    /\ p_queue' = valid
    /\ UNCHANGED <<all_tickers, v_queue, v_running, v_future, v_yielded,
                   probe, valid, p_running, p_future, p_yielded, response,
                   fetch_count, invalid_count>>
    /\ UNCHANGED <<anaVars, recVars, sessVars, repVars, poolVars>>

\* a free worker of the processing pool takes the oldest queued task and
\* issues its bar request (lines 78-83)
StartTask ==
    /\ p_queue /= <<>>
    /\ WorkerFree(p_running)
    /\ p_running' = p_running \cup {Head(p_queue)}
    /\ p_queue' = Tail(p_queue)
    /\ fetch_count' = [fetch_count EXCEPT ![Head(p_queue)] = @ + 1]
    /\ UNCHANGED <<pc, all_tickers, v_queue, v_running, v_future, v_yielded,
                   probe, valid, valid_tickers, p_future, p_yielded,
                   response, results, skipped, invalid_count>>
    /\ UNCHANGED <<anaVars, recVars, sessVars, repVars, poolVars>>

\* variant of FinishTask: the task itself appends its record to results
FinishTask_appends(t) ==
    /\ t \in p_running
    /\ \E r \in Responses :
        /\ response' = [response EXCEPT ![t] = r]
        /\ p_future' = [p_future EXCEPT ![t] = <<_process_single_ticker(t, r)>>]
        /\ results' = CollectResults(results, t, _process_single_ticker(t, r))
    /\ p_running' = p_running \ {t}
    /\ UNCHANGED <<pc, all_tickers, v_queue, v_running, v_future, v_yielded,
                   probe, valid, valid_tickers, p_queue, p_yielded,
                   fetch_count, skipped, invalid_count>>
    /\ UNCHANGED <<anaVars, recVars, sessVars, repVars, poolVars>>

\* lines 128-156: the request of ticker t answers, the rest of
\* _process_single_ticker runs and the task ends
FinishTask(t) ==
    /\ t \in p_running
    /\ \E r \in Responses :
        /\ response' = [response EXCEPT ![t] = r]
        /\ p_future' = [p_future EXCEPT ![t] = <<_process_single_ticker(t, r)>>]
    /\ p_running' = p_running \ {t}
    /\ UNCHANGED <<pc, all_tickers, v_queue, v_running, v_future, v_yielded,
                   probe, valid, valid_tickers, p_queue, p_yielded,
                   fetch_count, results, skipped, invalid_count>>
    /\ UNCHANGED <<anaVars, recVars, sessVars, repVars, poolVars>>

\* lines 113-124: as_completed yields the finished future of ticker t
CollectTask(t) ==
    /\ pc = "processing"
    /\ t \in Range(valid_tickers) \ p_yielded
    /\ p_future[t] /= Pending
    /\ p_yielded' = p_yielded \cup {t}
    /\ results' = CollectResults(results, t, p_future[t][1])
    /\ skipped' = CollectSkipped(skipped, t, p_future[t][1])
    /\ pc' = AfterCollect(p_future[t][1])
    /\ UNCHANGED <<all_tickers, v_queue, v_running, v_future, v_yielded,
                   probe, valid, valid_tickers, p_queue, p_running, p_future,
                   response, fetch_count, invalid_count>>
    /\ UNCHANGED <<anaVars, recVars, sessVars, repVars, poolVars>>

\* line 126: process_market returns
Return ==
    /\ pc = "processing"
    /\ p_yielded = Range(valid_tickers)
    /\ pc' = "returned"
    /\ invalid_count' = InvalidCount(all_tickers, valid_tickers)
    /\ UNCHANGED <<all_tickers, v_queue, v_running, v_future, v_yielded,
                   probe, valid, valid_tickers, p_queue, p_running, p_future,
                   p_yielded, response, fetch_count, results, skipped>>
    /\ UNCHANGED <<anaVars, recVars, sessVars, repVars, poolVars>>

Next ==
    \/ SubmitProbes
    \/ StartProbe
    \/ \E t \in Ticker : FinishProbe(t)
    \/ \E t \in Ticker : CollectProbe(t)
    \/ SubmitTasks
    \/ StartTask
    \/ \E t \in Ticker : FinishTask(t)
    \/ \E t \in Ticker : CollectTask(t)
    \/ Return

Spec == Init /\ [][Next]_vars

\* The batch run under fair scheduling.  The operating system runs every
\* thread that can run: the main thread goes on whenever it can submit,
\* take a finished future from as_completed or return, and a free worker
\* takes a queued task.  The provider answers every request, within
\* Config.TIMEOUT seconds at the latest (lines 43, 82), except that
\* nothing is assumed here about the requests of SlowTicker.
Fairness ==
    /\ WF_vars(SubmitProbes)
    /\ WF_vars(StartProbe)
    /\ \A t \in Ticker : WF_vars(CollectProbe(t))
    /\ WF_vars(SubmitTasks)
    /\ WF_vars(StartTask)
    /\ \A t \in Ticker : WF_vars(CollectTask(t))
    /\ WF_vars(Return)
    /\ \A t \in Ticker \ {SlowTicker} :
          WF_vars(FinishProbe(t)) /\ WF_vars(FinishTask(t))

InitFair ==
    /\ \E k \in 0..FairTickers : Entered([i \in 1..k |-> i])
    /\ AnalyzeIdle /\ RecommendIdle /\ SessionIdle /\ ReportIdle /\ PoolIdle

FairSpec == InitFair /\ [][Next]_vars /\ Fairness

\* ------------------------------------------------------------------------
\* SpecAnalyze: one fetch+analyze task, over every kind of response
\* ------------------------------------------------------------------------
AllResponses ==
    {Failure("error")}
    \cup {Frame(rows, shape) : rows \in 0..LongBars, shape \in Shapes}
    \cup {NoClose(rows) : rows \in 0..LongBars}
    \cup {Crash(rows) : rows \in 0..LongBars}

InitAnalyze ==
    /\ a_response \in AllResponses
    /\ a_future = Pending
    /\ PipelineIdle /\ RecommendIdle /\ SessionIdle /\ ReportIdle /\ PoolIdle

\* lines 128-156: the task of ticker 1 runs on the response
Analyze ==
    /\ a_future = Pending
    /\ a_future' = <<_process_single_ticker(1, a_response)>>
    /\ UNCHANGED <<a_response, pipeVars, recVars, sessVars, repVars, poolVars>>

NextAnalyze == Analyze

SpecAnalyze == InitAnalyze /\ [][NextAnalyze]_vars

\* ------------------------------------------------------------------------
\* SpecRecommend: AnalyticsReporter.generate_report, the Recommendation
\* column
\* ------------------------------------------------------------------------
\* variant of Recommendation: the two labels change places
Recommendation_swapped(z, ra) ==
    IF Gt(z, FromInt(1)) /\ Gt(ra, FromInt(0)) THEN "Avoid"
    ELSE IF Lt(z, FromInt(-1)) /\ Lt(ra, FromInt(0)) THEN "Buy"
    ELSE "Neutral"

\* variant of Recommendation: >= 1 for > 1
Recommendation_ge(z, ra) ==
    IF ~Lt(z, FromInt(1)) /\ ~IsNaN(z) /\ Gt(ra, FromInt(0)) THEN "Buy"
    ELSE IF Lt(z, FromInt(-1)) /\ Lt(ra, FromInt(0)) THEN "Avoid"
    ELSE "Neutral"

\* lines 181-189, for one row of the frame
Recommendation(z, ra) ==
    IF Gt(z, FromInt(1)) /\ Gt(ra, FromInt(0)) THEN "Buy"
    ELSE IF Lt(z, FromInt(-1)) /\ Lt(ra, FromInt(0)) THEN "Avoid"
    ELSE "Neutral"

Scores ==
    {NaN} \cup {Root(sg, n, d) : sg \in {-1, 1}, n \in 0..ScoreNum, d \in 1..ScoreDen}

InitRecommend ==
    /\ c_score \in Scores
    /\ c_risk_adj \in Scores
    /\ c_rec = "none"
    /\ PipelineIdle /\ AnalyzeIdle /\ SessionIdle /\ ReportIdle /\ PoolIdle

Recommend ==
    /\ c_rec = "none"
    /\ c_rec' = Recommendation(c_score, c_risk_adj)
    /\ UNCHANGED <<c_score, c_risk_adj, pipeVars, anaVars, sessVars, repVars, poolVars>>

NextRecommend == Recommend

SpecRecommend == InitRecommend /\ [][NextRecommend]_vars

\* ------------------------------------------------------------------------
\* SpecReport: AnalyticsReporter.generate_report on the outcome of a batch
\* ------------------------------------------------------------------------
\* line 199: head(10)
HEAD_ROWS == 10

\* the sequences that hold every element of S exactly once
Arrangements(S) == {q \in [1..Cardinality(S) -> S] : Range(q) = S}

\* What became of one ticker of the batch: a series long enough to be
\* analysed, a series too short (skipped), or a failed probe (invalid,
\* never fetched).
ReportFrames ==
    {Frame(MIN_DATA_POINTS, "down"), Frame(MIN_DATA_POINTS, "up"),
     Frame(LongBars, "flat"), Frame(LongBars, "spike"),
     Frame(MIN_DATA_POINTS + 1, "zigzag")}

Fates == ReportFrames \cup {Frame(ShortBars, "up"), Failure("none")}

\* the record of ticker t in results
ResultOf(t, fate) == _process_single_ticker(t, fate[t]).result[1]

\* lines 204-207: generate_report is called with what process_market
\* returned for a batch of k tickers; results is in completion order
InitReport ==
    /\ \E k \in 0..MaxTickers :
       \E fate \in [1..k -> Fates] :
          LET done    == {t \in 1..k : fate[t] \in ReportFrames}
              dropped == {t \in 1..k : fate[t] = Frame(ShortBars, "up")}
          IN  /\ r_input = k
              /\ \E q \in Arrangements(done) :
                    r_results = [i \in 1..Cardinality(done) |-> ResultOf(q[i], fate)]
              /\ \E q \in Arrangements(dropped) : r_skipped = q
              /\ r_invalid_count = k - Cardinality(done) - Cardinality(dropped)
    /\ r_pc = "call"
    /\ r_printed = ""
    /\ r_stats = <<>>
    /\ r_top = <<>>
    /\ PipelineIdle /\ AnalyzeIdle /\ RecommendIdle /\ SessionIdle /\ PoolIdle

\* lines 176, 181-189: a row of the frame, with its Recommendation
Row(rec) ==
    [Ticker          |-> rec.Ticker,
     Current_Price   |-> rec.Current_Price,
     Daily_Return    |-> rec.Daily_Return,
     Volatility      |-> rec.Volatility,
     Risk_Adj_Return |-> rec.Risk_Adj_Return,
     Z_Score         |-> rec.Z_Score,
     Recommendation  |-> Recommendation(rec.Z_Score, rec.Risk_Adj_Return)]

\* lines 191-196: the five printed counts
ProcessingStatistics(res, sk, inv) ==
    [total     |-> Len(res) + Len(sk) + inv,
     valid     |-> Len(res) + Len(sk),
     processed |-> Len(res),
     skipped   |-> Len(sk),
     invalid   |-> inv]

\* x may stand before y in a column sorted descending, NaN last
MayPrecede(x, y) == IsNaN(y) \/ (~IsNaN(x) /\ ~Less(x, y))

\* sort_values('Risk-Adj Return', ascending=False): the row orders the
\* default sort (kind='quicksort', not stable) can produce; rows with
\* equal keys come out in whatever order the build's sort leaves them
sort_values(df) ==
    {q \in Arrangements(1..Len(df)) :
        \A i, j \in 1..Len(df) :
            i < j => MayPrecede(df[q[i]].Risk_Adj_Return,
                                df[q[j]].Risk_Adj_Return)}

\* head(n)
head(df, n) == SubSeq(df, 1, IF Len(df) < n THEN Len(df) ELSE n)

\* lines 175-199
GenerateReport ==
    /\ r_pc = "call"
    /\ r_pc' = "returned"
    /\ IF r_results = <<>>
       THEN /\ r_printed' = "No valid data to display"
            /\ UNCHANGED <<r_stats, r_top>>
       ELSE /\ UNCHANGED r_printed
            /\ r_stats' = <<ProcessingStatistics(r_results, r_skipped,
                                                 r_invalid_count)>>
            /\ \E q \in sort_values(r_results) :
                  r_top' = head([i \in 1..Len(r_results) |-> Row(r_results[q[i]])],
                                HEAD_ROWS)
    /\ UNCHANGED <<r_input, r_results, r_skipped, r_invalid_count>>
    /\ UNCHANGED <<pipeVars, anaVars, recVars, sessVars, poolVars>>

NextReport == GenerateReport

SpecReport == InitReport /\ [][NextReport]_vars

\* ------------------------------------------------------------------------
\* SpecPool: one ThreadPoolExecutor(max_workers=Config.WORKERS), as built
\* on line 28 for the probes and on line 111 for the fetch+analyze tasks,
\* with more tasks than workers.  A task is a number; what it computes
\* plays no part.
\* ------------------------------------------------------------------------
\* lines 29 and 112: every task is submitted before any result is read
InitPool ==
    /\ \E k \in 0..PoolTasks :
          /\ w_tasks = k
          /\ w_queue = [i \in 1..k |-> i]
    /\ w_running = {}
    /\ w_done = {}
    /\ PipelineIdle /\ AnalyzeIdle /\ RecommendIdle /\ SessionIdle /\ ReportIdle

\* a free worker takes the oldest queued task
PoolStart ==
    /\ w_queue /= <<>>
    /\ WorkerFree(w_running)
    /\ w_running' = w_running \cup {Head(w_queue)}
    /\ w_queue' = Tail(w_queue)
    /\ UNCHANGED <<w_tasks, w_done>>
    /\ UNCHANGED <<pipeVars, anaVars, recVars, sessVars, repVars>>

\* task t returns or raises; its worker is free again
PoolFinish(t) ==
    /\ t \in w_running
    /\ w_running' = w_running \ {t}
    /\ w_done' = w_done \cup {t}
    /\ UNCHANGED <<w_tasks, w_queue>>
    /\ UNCHANGED <<pipeVars, anaVars, recVars, sessVars, repVars>>

NextPool ==
    \/ PoolStart
    \/ \E t \in 1..PoolTasks : PoolFinish(t)

SpecPool == InitPool /\ [][NextPool]_vars

\* ------------------------------------------------------------------------
\* SpecSession: MarketDataProcessor._get_market_day
\* ------------------------------------------------------------------------
\* datetime.weekday(): 0 is Monday, 5 and 6 are Saturday and Sunday
Weekday(day) == day % 7

Instants ==
    [day : 7..LastDay, hour : 0..23, minute : {0, 15, 30, 45}]

\* variant of OffHours: the test on the weekday is left out
OffHours_anyday(t) == t.hour < 9 \/ t.hour >= 16

\* line 59
OffHours(t) == Weekday(t.day) >= 5 \/ t.hour < 9 \/ t.hour >= 16

InitSession ==
    /\ now \in Instants
    /\ s_pc = "check"
    /\ delta = 0
    /\ market_day = 0
    /\ start_time = 0
    /\ end_time = 0
    /\ PipelineIdle /\ AnalyzeIdle /\ RecommendIdle /\ ReportIdle /\ PoolIdle

\* lines 59-60 and 66: the test on now
CheckNow ==
    /\ s_pc = "check"
    /\ IF OffHours(now)
       THEN s_pc' = "walk" /\ delta' = 1 /\ UNCHANGED market_day
       ELSE s_pc' = "done" /\ market_day' = now.day /\ UNCHANGED delta
    /\ UNCHANGED <<now, start_time, end_time>>
    /\ UNCHANGED <<pipeVars, anaVars, recVars, repVars, poolVars>>

\* lines 61-65: one turn of the while loop
WalkBack ==
    /\ s_pc = "walk"
    /\ LET candidate == now.day - delta IN
       IF Weekday(candidate) < 5
       THEN s_pc' = "done" /\ market_day' = candidate /\ UNCHANGED delta
       ELSE delta' = delta + 1 /\ UNCHANGED <<s_pc, market_day>>
    /\ UNCHANGED <<now, start_time, end_time>>
    /\ UNCHANGED <<pipeVars, anaVars, recVars, repVars, poolVars>>

\* the instant hour:minute of a day, in minutes since 00:00 of day 0; the
\* zone Asia/Kolkata has one fixed offset, so localize shifts nothing
Minutes(day, hour, minute) == (day * 24 + hour) * 60 + minute

\* lines 68-74, read with the two calls of localize closed before the
\* next statement: 09:15 and 15:30 of the market day
_get_market_hours(day) ==
    [market_open  |-> Minutes(day, 9, 15),
     market_close |-> Minutes(day, 15, 30)]

\* line 55: __init__ stores the two timestamps
GetMarketHours ==
    /\ s_pc = "done"
    /\ s_pc' = "ready"
    /\ start_time' = _get_market_hours(market_day).market_open
    /\ end_time' = _get_market_hours(market_day).market_close
    /\ UNCHANGED <<now, delta, market_day>>
    /\ UNCHANGED <<pipeVars, anaVars, recVars, repVars, poolVars>>

NextSession == CheckNow \/ WalkBack \/ GetMarketHours

SpecSession == InitSession /\ [][NextSession]_vars

\* ------------------------------------------------------------------------
\* Properties of the batch run (Spec)
\* ------------------------------------------------------------------------
Input == Range(all_tickers)

ResultTickers == {results[i].Ticker : i \in 1..Len(results)}

SkippedTickers == Range(skipped)

Occurrences(seq, x) == Cardinality({i \in 1..Len(seq) : seq[i] = x})

ResultRecords(t) == Cardinality({i \in 1..Len(results) : results[i].Ticker = t})

ProbeFailed(t) == probe[t] \in {"empty", "error"}

FailedProbes == {t \in Input : ProbeFailed(t)}

TypeOK ==
    /\ pc \in {"start", "validating", "processing", "returned"}
    /\ Len(results) + Len(skipped) <= Len(valid_tickers)

\* C1: when process_market has returned, every input ticker is accounted
\* for exactly once: it has one record in results, or stands once in
\* skipped, or is one of the invalid_count tickers whose probe failed, and
\* never two of these; the three counts add up to the number of inputs.
C1_Partition ==
    pc = "returned" =>
        /\ Len(results) + Len(skipped) + invalid_count = Len(all_tickers)
        /\ invalid_count = Cardinality(FailedProbes)
        /\ ResultTickers \subseteq Input
        /\ SkippedTickers \subseteq Input
        /\ \A t \in Input :
              ResultRecords(t) + Occurrences(skipped, t)
                  + (IF ProbeFailed(t) THEN 1 ELSE 0) = 1

\* a returned batch of three tickers with one of each kind
C1_Witness ==
    /\ pc = "returned"
    /\ Len(all_tickers) = 3
    /\ Len(results) = 1 /\ Len(skipped) = 1 /\ invalid_count = 1
    /\ \E t \in Input : response[t].kind = "crash"

\* The batch run with every task completing in input order, on the same
\* per-ticker probe answers and responses.
RECURSIVE InOrderValid(_)
InOrderValid(k) ==
    IF k = 0 THEN <<>>
    ELSE CollectValid(InOrderValid(k - 1), all_tickers[k],
                      _is_valid_ticker(probe[all_tickers[k]]))

RECURSIVE InOrderResults(_, _)
InOrderResults(v, k) ==
    IF k = 0 THEN <<>>
    ELSE CollectResults(InOrderResults(v, k - 1), v[k],
                        _process_single_ticker(v[k], response[v[k]]))

RECURSIVE InOrderSkipped(_, _)
InOrderSkipped(v, k) ==
    IF k = 0 THEN <<>>
    ELSE CollectSkipped(InOrderSkipped(v, k - 1), v[k],
                        _process_single_ticker(v[k], response[v[k]]))

\* C2: for fixed probe answers and responses the returned outcome does
\* not depend on the order in which tasks complete: under every
\* interleaving it is set-equal to the outcome of the run in which the
\* tasks complete in input order.
C2_OrderIndependent ==
    pc = "returned" =>
        LET v == InOrderValid(Len(all_tickers)) IN
        /\ Range(results) = Range(InOrderResults(v, Len(v)))
        /\ Range(skipped) = Range(InOrderSkipped(v, Len(v)))
        /\ invalid_count = InvalidCount(all_tickers, v)

\* a returned batch whose probes and tasks completed against input order
C2_Witness ==
    /\ pc = "returned"
    /\ Len(valid_tickers) = 3
    /\ valid_tickers[1] > valid_tickers[2]
    /\ Len(results) = 2
    /\ \E i, j \in 1..3 :
          /\ valid_tickers[i] = results[1].Ticker
          /\ valid_tickers[j] = results[2].Ticker
          /\ i > j

\* What the facts of one ticker alone make of it.
OwnOutcome(t) ==
    IF ProbeFailed(t) THEN "invalid"
    ELSE IF response[t].kind = "frame" /\ response[t].rows >= MIN_DATA_POINTS
    THEN "result"
    ELSE "skipped"

\* What the returned outcome says about a ticker.
Recorded(t) ==
    IF t \in ResultTickers THEN "result"
    ELSE IF t \in SkippedTickers THEN "skipped"
    ELSE IF t \notin Range(valid_tickers) THEN "invalid"
    ELSE "lost"

TaskFailed(t) ==
    \/ ProbeFailed(t)
    \/ response[t].kind \in {"error", "noclose", "crash"}

\* C3: no failure of one ticker aborts the batch.  Until it has returned,
\* process_market can always take a step and never raises; once it has
\* returned, a ticker whose probe, fetch, computation or task failed is
\* invalid or skipped, and every ticker is recorded as its own probe
\* answer and response alone decide, whatever happened to the others.
C3_FailureIsolated ==
    /\ pc /= "raised"
    /\ pc /= "returned" => ENABLED Next
    /\ pc = "returned" =>
          \A t \in Input :
              /\ Recorded(t) = OwnOutcome(t)
              /\ TaskFailed(t) => Recorded(t) \in {"invalid", "skipped"}

\* a returned batch in which one task raised, one probe failed and a
\* third ticker still got its result
C3_Witness ==
    /\ pc = "returned"
    /\ \E t, u, w \in Input :
          /\ response[t].kind = "crash" /\ t \in SkippedTickers
          /\ probe[u] = "error"
          /\ w \in ResultTickers

\* C4: the returned outcome is determined by the per-ticker facts:
\* results holds exactly the tickers with a successful probe, at least
\* MIN_DATA_POINTS bars and no failed computation, each with the record
\* computed from its own series; skipped holds exactly the other tickers
\* with a successful probe; invalid_count is the number of failed probes.
ExpectedResults ==
    {t \in Input : /\ probe[t] = "data"
                   /\ response[t].kind = "frame"
                   /\ response[t].rows >= MIN_DATA_POINTS}

ExpectedSkipped ==
    {t \in Input : /\ probe[t] = "data"
                   /\ \/ response[t].kind = "error"
                      \/ response[t].rows < MIN_DATA_POINTS
                      \/ response[t].kind \in {"noclose", "crash"}}

C4_Determined ==
    pc = "returned" =>
        /\ ResultTickers = ExpectedResults
        /\ Len(results) = Cardinality(ExpectedResults)
        /\ \A i \in 1..Len(results) :
              results[i] = [StatisticsOf[response[results[i].Ticker]]
                               EXCEPT !.Ticker = results[i].Ticker]
        /\ SkippedTickers = ExpectedSkipped
        /\ Len(skipped) = Cardinality(ExpectedSkipped)
        /\ invalid_count = Cardinality({t \in Input : probe[t] /= "data"})

\* ticker 1 with LongBars bars, ticker 2 with ShortBars bars, ticker 3
\* with a failing probe
C4_Witness ==
    /\ pc = "returned"
    /\ all_tickers = <<1, 2, 3>>
    /\ probe[1] = "data" /\ response[1] = Frame(LongBars, "flat")
    /\ probe[2] = "data" /\ response[2] = Frame(ShortBars, "up")
    /\ probe[3] = "error"
    /\ ResultTickers = {1} /\ Len(results) = 1
    /\ skipped = <<2>>
    /\ invalid_count = 1

\* C5: get_valid_tickers never raises into its caller and returns exactly
\* the input tickers whose probe returned data.  While it runs it can
\* always take a step, the list it builds holds only tickers whose probe
\* returned data, each once; what it returns holds all of them, and no
\* ticker whose probe raised, timed out or returned no data.
C5_ValidExact ==
    /\ pc = "validating" => ENABLED Next
    /\ \A t \in Range(valid) : probe[t] = "data" /\ Occurrences(valid, t) = 1
    /\ \A t \in v_yielded : probe[t] = "data" => t \in Range(valid)
    /\ pc \in {"processing", "returned"} =>
          /\ Range(valid_tickers) = {t \in Input : probe[t] = "data"}
          /\ Len(valid_tickers) = Cardinality(Range(valid_tickers))
          /\ \A t \in Input : ProbeFailed(t) => t \notin Range(valid_tickers)

\* get_valid_tickers has returned one ticker of three; the probes of the
\* other two raised and returned no data
C5_Witness ==
    /\ pc = "processing"
    /\ Len(all_tickers) = 3
    /\ Len(valid_tickers) = 1
    /\ \E t, u \in Input : probe[t] = "error" /\ probe[u] = "empty"

\* C6: bar requests are issued for exactly the validated tickers, one
\* each.  No ticker is ever requested twice; a ticker whose probe failed
\* is never requested, never handed to a task and never in results or
\* skipped; when the batch has returned every validated ticker has been
\* requested once.
C6_FetchOncePerValid ==
    /\ \A t \in Ticker :
          /\ fetch_count[t] <= 1
          /\ fetch_count[t] = 1 => probe[t] = "data"
          /\ response[t].kind /= "none" => fetch_count[t] = 1
    /\ \A t \in Input :
          ProbeFailed(t) =>
              /\ fetch_count[t] = 0
              /\ t \notin Range(p_queue) \cup p_running \cup p_yielded
              /\ p_future[t] = Pending
              /\ t \notin ResultTickers \cup SkippedTickers
    /\ pc = "returned" =>
          \A t \in Input : probe[t] = "data" => fetch_count[t] = 1

\* a returned batch with a failed fetch that was not retried and a failed
\* probe that was never fetched
C6_Witness ==
    /\ pc = "returned"
    /\ \E t, u \in Input :
          /\ response[t].kind = "error" /\ fetch_count[t] = 1
          /\ probe[u] = "empty" /\ fetch_count[u] = 0

\* C7: a fetch that fails with an error yields an empty series, not an
\* exception: the task's future holds None and no exception, and once the
\* main thread has seen it the ticker is in skipped, not in results, and
\* it is not one of the invalid tickers.
C7_FetchErrorSkipped ==
    \A t \in Input :
        response[t].kind = "error" =>
            /\ fetch_intraday_data(response[t]).data.rows = 0
            /\ p_future[t] = <<[exc |-> FALSE, result |-> <<>>]>>
            /\ t \in p_yielded =>
                  /\ Occurrences(skipped, t) = 1
                  /\ t \notin ResultTickers
            /\ t \in Range(valid_tickers) \ FailedProbes
            /\ pc = "returned" => invalid_count = Cardinality(FailedProbes)

\* a returned batch in which a fetch raised and its ticker was skipped
C7_Witness ==
    /\ pc = "returned"
    /\ \E t \in Input : response[t].kind = "error" /\ t \in SkippedTickers
    /\ invalid_count = 0

\* ------------------------------------------------------------------------
\* Properties of one task (SpecAnalyze)
\* ------------------------------------------------------------------------
\* C8: every series of fewer than MIN_DATA_POINTS bars, whatever its
\* prices and also when it is the empty series of a failed fetch, yields
\* None and no exception; the comparison is strict, so a series of exactly
\* MIN_DATA_POINTS bars with close prices yields a result record.
C8_ShortSeriesInsufficient ==
    a_future /= Pending =>
        /\ ( /\ a_response.kind \in {"frame", "noclose", "error"}
             /\ a_response.rows < MIN_DATA_POINTS )
           => a_future[1] = [exc |-> FALSE, result |-> <<>>]
        /\ ( /\ a_response.kind = "frame"
             /\ a_response.rows = MIN_DATA_POINTS )
           => /\ ~a_future[1].exc
              /\ Len(a_future[1].result) = 1
              /\ a_future[1].result[1].Ticker = 1

\* the task has run on a moving series one bar short of MIN_DATA_POINTS
C8_Witness ==
    /\ a_response = Frame(MIN_DATA_POINTS - 1, "zigzag")
    /\ a_future = <<[exc |-> FALSE, result |-> <<>>]>>

\* C11: a series of at least MIN_DATA_POINTS bars whose close prices are
\* all equal and not zero yields a result record, no exception, with
\* volatility exactly 0 and risk-adjusted return exactly 0: the division
\* by the zero volatility is not carried out.
C11_FlatSeriesZero ==
    ( /\ a_future /= Pending
      /\ a_response.kind = "frame"
      /\ a_response.shape = "flat"
      /\ a_response.rows >= MIN_DATA_POINTS )
    => /\ ~a_future[1].exc
       /\ Len(a_future[1].result) = 1
       /\ a_future[1].result[1].Volatility = FromInt(0)
       /\ a_future[1].result[1].Risk_Adj_Return = FromInt(0)
       /\ a_future[1].result[1].Daily_Return = FromInt(0)

\* the task has run on a flat series of exactly MIN_DATA_POINTS bars
C11_Witness ==
    /\ a_response = Frame(MIN_DATA_POINTS, "flat")
    /\ a_future /= Pending
    /\ a_future[1].result /= <<>>
    /\ a_future[1].result[1].Volatility = FromInt(0)

\* ------------------------------------------------------------------------
\* Properties of the recommendation (SpecRecommend)
\* ------------------------------------------------------------------------
\* x > 1, x < -1, x > 0 and x < 0 for the number sgn * sqrt(n / d)
AboveOne(x) == x.d /= 0 /\ x.sgn = 1 /\ x.n > x.d
BelowMinusOne(x) == x.d /= 0 /\ x.sgn = -1 /\ x.n > x.d
Positive(x) == x.d /= 0 /\ x.sgn = 1
Negative(x) == x.d /= 0 /\ x.sgn = -1

\* C9: the recommendation is one of Buy, Avoid and Neutral and is decided
\* by the two scores alone: Buy exactly when the score is above 1 and the
\* risk-adjusted return above 0, Avoid exactly when the score is below -1
\* and the risk-adjusted return below 0, Neutral otherwise.  The
\* comparisons are strict: a score of exactly 1 is never Buy, a score of
\* exactly -1 never Avoid.
C9_Recommendation ==
    c_rec /= "none" =>
        /\ c_rec \in {"Buy", "Avoid", "Neutral"}
        /\ c_rec = "Buy" <=> (AboveOne(c_score) /\ Positive(c_risk_adj))
        /\ c_rec = "Avoid" <=> (BelowMinusOne(c_score) /\ Negative(c_risk_adj))
        /\ (c_score.n = c_score.d /\ c_score.sgn = 1) => c_rec /= "Buy"
        /\ (c_score.n = c_score.d /\ c_score.sgn = -1) => c_rec /= "Avoid"

\* score = 1 and risk-adjusted return = 1 have been classified Neutral
C9_Witness ==
    /\ c_score = FromInt(1)
    /\ c_risk_adj = FromInt(1)
    /\ c_rec = "Neutral"

\* ------------------------------------------------------------------------
\* Properties of the session date (SpecSession)
\* ------------------------------------------------------------------------
\* now lies on a weekend, before 09:15 or after 15:30
OutsideSession(t) ==
    \/ Weekday(t.day) >= 5
    \/ t.hour * 60 + t.minute < 9 * 60 + 15
    \/ t.hour * 60 + t.minute > 15 * 60 + 30

LatestWeekdayAtOrBefore(day) ==
    CHOOSE d \in (day - 6)..day :
        /\ Weekday(d) < 5
        /\ \A e \in (d + 1)..day : Weekday(e) >= 5

\* C10: for every now on a weekend or outside session hours, the session
\* date is the latest weekday at or before now: now's own date on a
\* weekday before the open or after the close, the preceding Friday on a
\* Saturday or Sunday.
C10_LatestWeekdayAtOrBefore ==
    (s_pc = "done" /\ OutsideSession(now)) =>
        market_day = LatestWeekdayAtOrBefore(now.day)

\* C13: the resolver keeps now's own date exactly when now is a weekday
\* whose hour is neither before the open hour (9) nor at or after the
\* close hour (15) of the 09:15-15:30 session; in every other case the
\* session date is an earlier weekday.  A weekday 15:45 is not in session.
InSessionHours(t) ==
    /\ Weekday(t.day) < 5
    /\ ~(t.hour < 9)
    /\ ~(t.hour >= 15)

C13_KeepsDateIffInSession ==
    s_pc \in {"done", "ready"} =>
        /\ market_day = now.day <=> InSessionHours(now)
        /\ ~InSessionHours(now) => (market_day < now.day /\ Weekday(market_day) < 5)

NonIncreasing(rows) ==
    \A i \in 1..(Len(rows) - 1) :
        ~Lt(rows[i].Risk_Adj_Return, rows[i + 1].Risk_Adj_Return)

\* C12: for every outcome of a batch, also one whose results are empty,
\* generate_report prints the five counts, with total = number of input
\* tickers, valid = len(results) + len(skipped), processed =
\* len(results), skipped = len(skipped) and invalid = invalid_count, and
\* lists at most HEAD_ROWS results in non-increasing order of
\* risk-adjusted return.
C12_ReportCounts ==
    r_pc = "returned" =>
        /\ Len(r_stats) = 1
        /\ r_stats[1].total = r_input
        /\ r_stats[1].valid = Len(r_results) + Len(r_skipped)
        /\ r_stats[1].processed = Len(r_results)
        /\ r_stats[1].skipped = Len(r_skipped)
        /\ r_stats[1].invalid = r_invalid_count
        /\ Len(r_top) <= HEAD_ROWS
        /\ NonIncreasing(r_top)

\* The same records in the order of their tickers: the results list of a
\* run whose tasks completed in input order.
ByTicker(res) ==
    LET q == CHOOSE q \in Arrangements(1..Len(res)) :
                 \A i, j \in 1..Len(res) :
                     i < j => res[q[i]].Ticker < res[q[j]].Ticker
    IN  [i \in 1..Len(res) |-> res[q[i]]]

\* the row order a stable sort produces: equal keys keep their order
StableOrder(df) ==
    CHOOSE q \in sort_values(df) :
        \A i, j \in 1..Len(df) :
            (i < j /\ df[q[i]].Risk_Adj_Return = df[q[j]].Risk_Adj_Return)
                => q[i] < q[j]

\* the table generate_report prints for the list df under a stable sort
StableTop(df) ==
    LET q == StableOrder(df)
    IN  head([i \in 1..Len(df) |-> Row(df[q[i]])], HEAD_ROWS)

\* C19: the printed ranking depends on the set of result records only,
\* not on the order in which the tasks completed: the table printed for
\* results is the table printed for the same records in any other order,
\* here the order of their tickers, also when records have equal
\* risk-adjusted returns.
C19_RankingOrderIndependent ==
    (r_pc = "returned" /\ r_results /= <<>>) =>
        r_top = StableTop(ByTicker(r_results))

\* C20: every row with recommendation Buy has a daily return above 0 and
\* every row with Avoid a daily return below 0; a row with zero
\* volatility or zero daily return is Neutral.
C20_SignOfReturn ==
    r_pc = "returned" =>
        /\ Len(r_top) = Len(r_results)
        /\ \A i \in 1..Len(r_top) :
              /\ r_top[i].Recommendation = "Buy"
                    => Positive(r_top[i].Daily_Return)
              /\ r_top[i].Recommendation = "Avoid"
                    => Negative(r_top[i].Daily_Return)
              /\ ( \/ r_top[i].Volatility = FromInt(0)
                   \/ r_top[i].Daily_Return = FromInt(0) )
                    => r_top[i].Recommendation = "Neutral"

\* a table with a Buy row, an Avoid row and a Neutral row whose series
\* moved but ended where it began
C20_Witness ==
    /\ r_pc = "returned"
    /\ \E i, j, k \in 1..Len(r_top) :
          /\ r_top[i].Recommendation = "Buy"
          /\ r_top[j].Recommendation = "Avoid"
          /\ r_top[k].Recommendation = "Neutral"
          /\ r_top[k].Daily_Return = FromInt(0)
          /\ r_top[k].Volatility /= FromInt(0)

\* ------------------------------------------------------------------------
\* Properties of the two phases (Spec)
\* ------------------------------------------------------------------------
\* the tickers with a submitted probe task that has not ended
ProbeActive == Range(v_queue) \cup v_running

\* the tickers with a submitted fetch+analyze task that has not ended
TaskActive == Range(p_queue) \cup p_running

\* the tickers for which a fetch+analyze task was ever submitted
TaskSubmitted == TaskActive \cup {t \in Ticker : p_future[t] /= Pending}

\* C15: the validation phase and the fetch+analyze phase never overlap.
\* While any probe is queued, running or not yet classified by the main
\* thread, no fetch+analyze task has been submitted or started and no bar
\* request issued; once one has, every probe has ended and been
\* classified; and no ticker is ever in both phases at once.
C15_PhasesSequential ==
    /\ (ProbeActive /= {} \/ v_yielded /= Input \/ pc \in {"start", "validating"})
          => /\ TaskSubmitted = {}
             /\ \A t \in Ticker : fetch_count[t] = 0
    /\ TaskSubmitted /= {} =>
          /\ ProbeActive = {}
          /\ v_yielded = Input
          /\ \A t \in Input : v_future[t] /= Pending /\ probe[t] /= "none"
          /\ pc \in {"processing", "returned"}
    /\ ProbeActive \cap TaskActive = {}

\* two fetch+analyze tasks are running, a third ticker was found invalid
C15_Witness ==
    /\ pc = "processing"
    /\ Cardinality(p_running) = 2
    /\ Len(all_tickers) = 3
    /\ v_yielded = Input
    /\ \E t \in Input : ProbeFailed(t)

\* ------------------------------------------------------------------------
\* Properties of the aggregates (Spec)
\* ------------------------------------------------------------------------
\* a step of a worker thread: a task is taken from a queue or ends
WorkerStep ==
    \/ v_running' /= v_running
    \/ p_running' /= p_running
    \/ v_future' /= v_future
    \/ p_future' /= p_future

\* the main thread takes the future of ticker t from as_completed
YieldsProbe(t) == t \notin v_yielded /\ v_yielded' = v_yielded \cup {t}
YieldsTask(t) == t \notin p_yielded /\ p_yielded' = p_yielded \cup {t}

\* C17: the lists valid, results and skipped change only by the main
\* thread appending the outcome of one completed task: each change adds
\* one element at the end, for a future that ended before and is yielded
\* in that step, and keeps what the list held; one step changes one list
\* only.  A step of a worker thread changes none of them, and what a task
\* leaves in its future depends on its own ticker and response alone.
C17_AppendOnCompletion ==
    [][ /\ valid' /= valid =>
              \E t \in Input :
                  /\ YieldsProbe(t)
                  /\ v_future[t] = <<TRUE>>
                  /\ valid' = Append(valid, t)
                  /\ UNCHANGED <<results, skipped>>
        /\ results' /= results =>
              \E t \in Range(valid_tickers) :
                  /\ YieldsTask(t)
                  /\ p_future[t] /= Pending
                  /\ p_future[t][1].result /= <<>>
                  /\ results' = Append(results, p_future[t][1].result[1])
                  /\ UNCHANGED <<valid, skipped>>
        /\ skipped' /= skipped =>
              \E t \in Range(valid_tickers) :
                  /\ YieldsTask(t)
                  /\ p_future[t] /= Pending
                  /\ skipped' = Append(skipped, t)
                  /\ UNCHANGED <<valid, results>>
        /\ WorkerStep => UNCHANGED <<valid, results, skipped, valid_tickers>>
        /\ \A t \in Ticker :
              p_future'[t] /= p_future[t] =>
                  p_future'[t] = <<_process_single_ticker(t, response'[t])>>
        /\ \A t \in Ticker :
              v_future'[t] /= v_future[t] =>
                  v_future'[t] = <<_is_valid_ticker(probe'[t])>>
      ]_vars

\* two outcomes have been appended, one to each list, while a third task
\* is still being executed
C17_Witness ==
    /\ pc = "processing"
    /\ Len(results) = 1
    /\ Len(skipped) = 1
    /\ Cardinality(p_running) = 1
    /\ Len(valid_tickers) = 3

\* ------------------------------------------------------------------------
\* Properties of one pool (SpecPool)
\* ------------------------------------------------------------------------
\* C16: however many tasks are submitted to a pool, never more than
\* WORKERS (10) of them are being executed at once; this is so for the
\* probe pool and for the fetch+analyze pool, which are built alike.  No
\* task is lost or executed twice meanwhile.  MIN_DATA_POINTS, WORKERS
\* and TIMEOUT are attributes of class Config that no statement assigns;
\* they are fixed values here.
C16_BoundedParallelism ==
    /\ Cardinality(w_running) <= WORKERS
    /\ WORKERS = 10
    /\ Range(w_queue) \cup w_running \cup w_done = 1..w_tasks
    /\ Range(w_queue) \cap w_running = {}
    /\ w_running \cap w_done = {}
    /\ Range(w_queue) \cap w_done = {}

\* all ten workers are busy and two more tasks wait in the queue
C16_Witness ==
    /\ w_tasks = WORKERS + 2
    /\ Cardinality(w_running) = WORKERS
    /\ Len(w_queue) = 2

\* ------------------------------------------------------------------------
\* Properties of the batch run under fair scheduling (FairSpec)
\* ------------------------------------------------------------------------
\* the requests of SlowTicker are answered too
SlowTickerAnswers ==
    WF_vars(FinishProbe(SlowTicker)) /\ WF_vars(FinishTask(SlowTicker))

\* every input ticker is a result, skipped or invalid
AllClassified == \A t \in Input : Recorded(t) /= "lost"

\* the tickers of the phase the run is in, but for SlowTicker, have all
\* been handed to the main thread and classified
OthersAggregated ==
    \/ pc = "validating" /\ Input \ {SlowTicker} \subseteq v_yielded
    \/ /\ pc = "processing"
       /\ Range(valid_tickers) \ {SlowTicker} \subseteq p_yielded
       /\ Range(valid_tickers) \ {SlowTicker}
             \subseteq ResultTickers \cup SkippedTickers
    \/ pc = "returned"

\* C18: under fair scheduling, if every probe and fetch is answered the
\* batch run ends with every ticker classified as a result, skipped or
\* invalid.  A slow ticker holds up no other: even if the requests of
\* SlowTicker are never answered, in each phase the run gets to, the
\* task of every other ticker is started, ends and is aggregated.
C18_Terminates ==
    /\ SlowTickerAnswers => <>(pc = "returned" /\ AllClassified)
    /\ []<>OthersAggregated

\* the task of SlowTicker is still being executed while every other
\* ticker of the batch has been fetched, analysed and aggregated
C18_Witness ==
    /\ pc = "processing"
    /\ Len(valid_tickers) = FairTickers
    /\ p_running = {SlowTicker}
    /\ p_future[SlowTicker] = Pending
    /\ p_yielded = Range(valid_tickers) \ {SlowTicker}
    /\ Len(results) + Len(skipped) = FairTickers - 1

====
